---- MODULE Spec2Model ----
(***************************************************************************)
(* Model of wg-allowedips (src/main.go): a single-threaded pipeline that   *)
(* reads an allow-list file, classifies each entry, resolves hostnames     *)
(* with `dig +short`, de-duplicates and sorts the addresses and either     *)
(* prints them or splices them into a WireGuard configuration.             *)
(*                                                                         *)
(* Strings are sequences of one-character strings, so that trimming,       *)
(* splitting, prefix tests, parsing and byte-wise comparison are computed  *)
(* the way the Go code computes them.  A file is the sequence of tokens    *)
(* its bufio.Scanner yields (one per line, terminator removed).            *)
(***************************************************************************)
EXTENDS Integers, Sequences, FiniteSets, TLC

(***************************************************************************)
(* Bounds of the model.                                                    *)
(***************************************************************************)
MaxLines == 2        \* lines read from the allow-list file
MaxWgLines == 2      \* lines read from the WireGuard configuration

(***************************************************************************)
(* Characters and byte order.                                              *)
(***************************************************************************)
\* the characters of the model in ascending byte order (ASCII)
CharOrder ==
  << "\t", "\n", "\r", " ", "#", ",", "-", ".", "0", "1", "2", "3", "4", "5",
     "6", "7", "8", "9", ":", "=", "A", "I", "P", "X", "[", "]", "a", "b",
     "c", "d", "e", "f", "l", "m", "n", "o", "r", "s", "t", "w" >>

Byte(c) == CHOOSE i \in 1..Len(CharOrder) : CharOrder[i] = c

Chars == { CharOrder[i] : i \in 1..Len(CharOrder) }
Strings == Seq(Chars)            \* Go strings
StringSlices == Seq(Strings)     \* Go []string

Digits == {"0", "1", "2", "3", "4", "5", "6", "7", "8", "9"}
Letters == {"A", "I", "P", "X", "a", "b", "c", "d", "e", "f", "l", "m", "n",
            "o", "r", "s", "t", "w"}
AlphaNum == Digits \cup Letters
HexDigits == Digits \cup {"a", "b", "c", "d", "e", "f"}
WhiteSpace == {" ", "\t", "\n", "\r"}

DigitVal(c) == Byte(c) - Byte("0")
HexVal(c) == IF c \in Digits THEN DigitVal(c) ELSE 10 + Byte(c) - Byte("a")

(***************************************************************************)
(* Package strings.                                                        *)
(***************************************************************************)
\* strings.TrimSpace: drop leading and trailing white space
TrimLeft[s \in Strings] ==
  IF s # <<>> /\ Head(s) \in WhiteSpace THEN TrimLeft[Tail(s)] ELSE s

TrimRight[s \in Strings] ==
  IF s # <<>> /\ s[Len(s)] \in WhiteSpace
    THEN TrimRight[SubSeq(s, 1, Len(s) - 1)]
    ELSE s

TrimSpace(s) == TrimRight[TrimLeft[s]]

\* strings.HasPrefix
HasPrefix(s, prefix) ==
  /\ Len(s) >= Len(prefix)
  /\ SubSeq(s, 1, Len(prefix)) = prefix

\* strings.Contains for a one-character substring
Contains(s, c) == \E i \in 1..Len(s) : s[i] = c

\* strings.Split(s, sep) for a one-character separator: always at least one
\* field, empty fields kept
SplitFrom[s \in Strings, sep \in Chars, cur \in Strings] ==
  IF s = <<>> THEN << cur >>
  ELSE IF Head(s) = sep THEN << cur >> \o SplitFrom[Tail(s), sep, <<>>]
  ELSE SplitFrom[Tail(s), sep, Append(cur, Head(s))]

Split(s, sep) == SplitFrom[s, sep, <<>>]

\* strings.Join(elems, ",")
JoinFrom[elems \in StringSlices] ==
  IF elems = <<>> THEN <<>>
  ELSE IF Len(elems) = 1 THEN elems[1]
  ELSE elems[1] \o << "," >> \o JoinFrom[Tail(elems)]

Join(elems) == JoinFrom[elems]

\* Go's string comparison a < b: byte-wise lexicographic
Less[a \in Strings, b \in Strings] ==
  IF b = <<>> THEN FALSE
  ELSE IF a = <<>> THEN TRUE
  ELSE IF Head(a) # Head(b) THEN Byte(Head(a)) < Byte(Head(b))
  ELSE Less[Tail(a), Tail(b)]

StrLess(a, b) == Less[a, b]

\* sort.Strings: the ascending arrangement of the slice (insertion sort; the
\* result of sorting strings does not depend on the algorithm)
InsertSorted[x \in Strings, sorted \in StringSlices] ==
  IF sorted = <<>> THEN << x >>
  ELSE IF StrLess(Head(sorted), x)
    THEN << Head(sorted) >> \o InsertSorted[x, Tail(sorted)]
    ELSE << x >> \o sorted

Sorted[slice \in StringSlices] ==
  IF slice = <<>> THEN <<>>
  ELSE InsertSorted[slice[Len(slice)], Sorted[SubSeq(slice, 1, Len(slice) - 1)]]

SortStrings(slice) == Sorted[slice]

(***************************************************************************)
(* Package net: ParseIP yields the 16-byte form of the address, or <<>>    *)
(* (nil) when the text is not an address.                                  *)
(***************************************************************************)
\* a decimal field of a dotted quad: 1 to 3 digits, no leading zero, at most
\* 255; -1 when it is not one
DecimalField(f) ==
  IF Len(f) = 0 \/ Len(f) > 3 THEN -1
  ELSE IF \E i \in 1..Len(f) : f[i] \notin Digits THEN -1
  ELSE IF Len(f) > 1 /\ f[1] = "0" THEN -1
  ELSE LET v == IF Len(f) = 1 THEN DigitVal(f[1])
                ELSE IF Len(f) = 2 THEN 10 * DigitVal(f[1]) + DigitVal(f[2])
                ELSE 100 * DigitVal(f[1]) + 10 * DigitVal(f[2]) + DigitVal(f[3])
       IN IF v > 255 THEN -1 ELSE v

\* the four bytes of a dotted quad, or <<>>
ParseIPv4(s) ==
  LET fields == Split(s, ".")
  IN IF Len(fields) # 4 THEN <<>>
     ELSE IF \E i \in 1..4 : DecimalField(fields[i]) = -1 THEN <<>>
     ELSE << DecimalField(fields[1]), DecimalField(fields[2]),
             DecimalField(fields[3]), DecimalField(fields[4]) >>

\* a hexadecimal group of an IPv6 address as its two bytes, or <<>>
HexGroup(g) ==
  IF Len(g) = 0 \/ Len(g) > 4 THEN <<>>
  ELSE IF \E i \in 1..Len(g) : g[i] \notin HexDigits THEN <<>>
  ELSE LET pad == SubSeq(<< "0", "0", "0" >>, 1, 4 - Len(g)) \o g
       IN << 16 * HexVal(pad[1]) + HexVal(pad[2]),
             16 * HexVal(pad[3]) + HexVal(pad[4]) >>

\* the bytes of the groups that follow a leading "::", or << -1 >> on a
\* syntax error; the last group may be a dotted quad
GroupBytes[groups \in StringSlices] ==
  IF groups = <<>> THEN <<>>
  ELSE LET g == Head(groups)
           b == IF Len(groups) = 1 /\ Contains(g, ".")
                  THEN ParseIPv4(g) ELSE HexGroup(g)
           rest == GroupBytes[Tail(groups)]
       IN IF b = <<>> \/ rest = << -1 >> THEN << -1 >> ELSE b \o rest

ZeroBytes == << 0, 0, 0, 0, 0, 0, 0, 0, 0, 0, 0, 0, 0, 0, 0, 0 >>

\* IPv6 text with a leading "::" (the only shape of IPv6 text among the
\* inputs of the model); any other text with a colon is rejected here
ParseIPv6(s) ==
  IF ~HasPrefix(s, << ":", ":" >>) THEN <<>>
  ELSE LET rest == SubSeq(s, 3, Len(s))
           tail == IF rest = <<>> THEN <<>> ELSE GroupBytes[Split(rest, ":")]
       IN IF tail = << -1 >> \/ Len(tail) > 14 THEN <<>>
          ELSE SubSeq(ZeroBytes, 1, 16 - Len(tail)) \o tail

v4InV6Prefix == << 0, 0, 0, 0, 0, 0, 0, 0, 0, 0, 255, 255 >>

\* net.ParseIP: the first '.' or ':' of the text selects the parser
ParseIP(s) ==
  LET marks == { i \in 1..Len(s) : s[i] \in {".", ":"} }
  IN IF marks = {} THEN <<>>
     ELSE LET first == CHOOSE i \in marks : \A j \in marks : i <= j
          IN IF s[first] = "."
               THEN LET q == ParseIPv4(s)
                    IN IF q = <<>> THEN <<>> ELSE v4InV6Prefix \o q
               ELSE ParseIPv6(s)

\* IP.To4: the last four bytes when the address is IPv4 or IPv4-mapped
To4(ip) ==
  IF Len(ip) = 16 /\ SubSeq(ip, 1, 12) = v4InV6Prefix
    THEN SubSeq(ip, 13, 16)
    ELSE <<>>

(***************************************************************************)
(* The validators and the resolver's answer filter.                        *)
(***************************************************************************)
\* isValidIPv4: an IPv4 address whose text has four fields without leading
\* zeros
isValidIPv4(s) ==
  LET ip == ParseIP(s)
      parts == Split(s, ".")
  IN IF ip = <<>> \/ To4(ip) = <<>> THEN FALSE
     ELSE IF Len(parts) # 4 THEN FALSE
     ELSE \A i \in 1..Len(parts) : ~(Len(parts[i]) > 1 /\ parts[i][1] = "0")

\* labelPattern: ^[a-zA-Z0-9]([a-zA-Z0-9-]*[a-zA-Z0-9])?$|^[a-zA-Z0-9]$
labelPattern(label) ==
  /\ Len(label) >= 1
  /\ label[1] \in AlphaNum
  /\ label[Len(label)] \in AlphaNum
  /\ \A i \in 1..Len(label) : label[i] \in AlphaNum \cup {"-"}

\* isValidHostname: dotted labels of letters, digits and inner hyphens
isValidHostname(s) ==
  IF Len(s) = 0 \/ Len(s) > 253 THEN FALSE
  ELSE IF ~Contains(s, ".") THEN FALSE
  ELSE LET labels == Split(s, ".")
       IN \A i \in 1..Len(labels) :
            /\ ~(Len(labels[i]) = 0 \/ Len(labels[i]) > 63)
            /\ labelPattern(labels[i])

\* the answer lines resolveHostname keeps: trimmed, non-empty, and accepted
\* by net.ParseIP with a non-nil To4
KeepAnswers[lines \in StringSlices] ==
  IF lines = <<>> THEN <<>>
  ELSE LET line == TrimSpace(Head(lines))
           rest == KeepAnswers[Tail(lines)]
       IN IF line = <<>> THEN rest
          ELSE IF ParseIP(line) # <<>> /\ To4(ParseIP(line)) # <<>>
            THEN << line >> \o rest
            ELSE rest

\* resolveHostname, given what running `dig +short hostname` produced
resolveHostname(run) ==
  IF run.err THEN [ips |-> <<>>, err |-> TRUE]
  ELSE [ips |-> KeepAnswers[Split(TrimSpace(run.output), "\n")], err |-> FALSE]

\* a removeDuplicates that forgets to drop the repeated strings
removeDuplicatesNone(slice) == slice

\* removeDuplicates: the first occurrence of every string, in order
removeDuplicatesFrom[slice \in StringSlices, result \in StringSlices] ==
  IF slice = <<>> THEN result
  ELSE IF \E i \in 1..Len(result) : result[i] = Head(slice)
    THEN removeDuplicatesFrom[Tail(slice), result]
    ELSE removeDuplicatesFrom[Tail(slice), Append(result, Head(slice))]

removeDuplicates(slice) == removeDuplicatesFrom[slice, <<>>]

\* the branch the scan loop takes for a trimmed line (lines 154-179)
Classify(line) ==
  IF line = <<>> THEN "blank"
  ELSE IF HasPrefix(line, << "#" >>) THEN "comment"
  ELSE IF isValidIPv4(line) THEN "address"
  ELSE IF isValidHostname(line) THEN "hostname"
  ELSE "invalid"

\* the test that selects the lines of the WireGuard configuration to replace
AllowedIPsToken == << "A", "l", "l", "o", "w", "e", "d", "I", "P", "s" >>

\* the prefix test applied to the untrimmed line
IsAllowedIPsLineUntrimmed(line) == HasPrefix(line, AllowedIPsToken)

IsAllowedIPsLine(line) == HasPrefix(TrimSpace(line), AllowedIPsToken)

\* the replacement line "AllowedIPs = %s"
ReplacementLine(value) == AllowedIPsToken \o << " ", "=", " " >> \o value

(***************************************************************************)
(* Inputs: the command lines, the lines of the two files and the outcomes  *)
(* of running dig.                                                         *)
(***************************************************************************)
ArgLists ==
  { << "prog" >>,
    << "prog", "allowed.txt" >>,
    << "prog", "allowed.txt", "" >>,
    << "prog", "allowed.txt", "wg.conf" >>,
    << "prog", "allowed.txt", "wg.conf", "extra" >> }

AllowLines ==
  { << " " >>,                                                  \* blank
    << " ", "#", "c" >>,                                        \* comment
    << " ", "1", "0", ".", "0", ".", "0", ".", "2", "\t" >>,    \* 10.0.0.2
    << "a", ".", "c", "o", "m" >>,                              \* a.com
    << "0", "1", ".", "2", ".", "3", ".", "4" >>,               \* 01.2.3.4
    << ":", ":", "f", "f", "f", "f", ":",                       \* ::ffff:1.2.3.4
       "1", ".", "2", ".", "3", ".", "4" >>,
    << "-", "a", ".", "c", "o", "m" >> }                        \* -a.com

\* what `dig +short` may produce: a failure, or its standard output
DigRuns ==
  { [err |-> TRUE, output |-> <<>>],
    [err |-> FALSE,                                 \* b.net. / empty / ::1
     output |-> << "b", ".", "n", "e", "t", ".", "\n", "\n", ":", ":", "1", "\n" >>],
    [err |-> FALSE,                  \* b.net. / 10.0.0.2 / 10.0.0.10 / 10.0.0.1
     output |-> << "b", ".", "n", "e", "t", ".", "\n",
                   "1", "0", ".", "0", ".", "0", ".", "2", "\n",
                   "1", "0", ".", "0", ".", "0", ".", "1", "0", "\n",
                   "1", "0", ".", "0", ".", "0", ".", "1", "\n" >>],
    [err |-> FALSE,                                 \* ::ffff:1.2.3.4
     output |-> << ":", ":", "f", "f", "f", "f", ":",
                   "1", ".", "2", ".", "3", ".", "4", "\n" >>] }

WgLines ==
  { << "A", "l", "l", "o", "w", "e", "d", "I", "P", "s", " ", "=", " ", "1" >>,
    << "\t", "A", "l", "l", "o", "w", "e", "d", "I", "P", "s", "X", " " >>,
    << " ", "[", "P", "e", "e", "r", "]", " " >> }

(***************************************************************************)
(* The state of a run.                                                     *)
(***************************************************************************)
VARIABLES
  Args,             \* os.Args
  pc,               \* where main is
  wgConfigFile,     \* the second argument, "" when there is none
  configLines,      \* the tokens the allow-list scanner has yielded
  lineNum,          \* main's line counter
  line,             \* the trimmed line being processed
  allIPs,           \* the address collection
  allowedIPsValue,  \* the joined string
  digRuns,          \* the dig invocations: line, hostname, outcome
  wgLines,          \* the tokens the configuration scanner has yielded
  opened,           \* the paths handed to os.Open
  stdout,           \* the lines written to standard output
  stderr,           \* the messages written to standard error
  exitCode          \* the exit status, -1 while running

vars == << Args, pc, wgConfigFile, configLines, lineNum, line, allIPs,
           allowedIPsValue, digRuns, wgLines, opened, stdout, stderr, exitCode >>

Message(sev, what, n, text) ==
  [sev |-> sev, what |-> what, line |-> n, text |-> text]

Init ==
  /\ Args \in ArgLists
  /\ pc = "start"
  /\ wgConfigFile = ""
  /\ configLines = <<>>
  /\ lineNum = 0
  /\ line = <<>>
  /\ allIPs = <<>>
  /\ allowedIPsValue = <<>>
  /\ digRuns = <<>>
  /\ wgLines = <<>>
  /\ opened = <<>>
  /\ stdout = <<>>
  /\ stderr = <<>>
  /\ exitCode = -1

\* an errorExit that writes the message and exits with status 0
errorExitStatusZero(m) ==
  /\ stderr' = Append(stderr, m)
  /\ exitCode' = 0
  /\ pc' = "exited"

\* errorExit: one ERROR message on standard error, then os.Exit(1)
errorExit(m) ==
  /\ stderr' = Append(stderr, m)
  /\ exitCode' = 1
  /\ pc' = "exited"

\* warn: one WARNING message on standard error
warn(m) == stderr' = Append(stderr, m)

\* usage: the usage text on standard error, then os.Exit(1)
usage ==
  /\ stderr' = Append(stderr, Message("USAGE", "usage", 0, <<>>))
  /\ exitCode' = 1
  /\ pc' = "exited"

\* lines 128-136: the argument count and the two paths
CheckArgs ==
  /\ pc = "start"
  /\ IF Len(Args) < 2 \/ Len(Args) > 3
       THEN /\ usage
            /\ UNCHANGED wgConfigFile
       ELSE /\ wgConfigFile' = IF Len(Args) = 3 THEN Args[3] ELSE ""
            /\ pc' = "open"
            /\ UNCHANGED << stderr, exitCode >>
  /\ UNCHANGED << Args, configLines, lineNum, line, allIPs, allowedIPsValue,
                  digRuns, wgLines, opened, stdout >>

\* lines 139-147: open the allow-list file, which the system may refuse
OpenConfig ==
  /\ pc = "open"
  /\ opened' = Append(opened, Args[2])
  /\ \E ok \in BOOLEAN :
       IF ok
         THEN /\ pc' = "scan"
              /\ UNCHANGED << stderr, exitCode >>
         ELSE errorExit(Message("ERROR", "config file does not exist", 0, <<>>))
  /\ UNCHANGED << Args, wgConfigFile, configLines, lineNum, line, allIPs,
                  allowedIPsValue, digRuns, wgLines, stdout >>

\* lines 149-179: the scanner yields one more line; blank lines and comments
\* are skipped, an address is collected, a hostname starts dig, anything
\* else is fatal
ScanConfig ==
  /\ pc = "scan"
  /\ Len(configLines) < MaxLines
  /\ \E text \in AllowLines :
       LET trimmed == TrimSpace(text)
           class == Classify(trimmed)
       IN /\ configLines' = Append(configLines, text)
          /\ lineNum' = lineNum + 1
          /\ line' = trimmed
          /\ allIPs' = IF class = "address" THEN Append(allIPs, trimmed) ELSE allIPs
          /\ IF class = "invalid"
               THEN errorExit(Message("ERROR", "invalid entry", lineNum + 1, trimmed))
               ELSE /\ pc' = IF class = "hostname" THEN "resolving" ELSE "scan"
                    /\ UNCHANGED << stderr, exitCode >>
  /\ UNCHANGED << Args, wgConfigFile, allowedIPsValue, digRuns, wgLines, opened, stdout >>

\* the resolution step without the `continue` after the failure warning:
\* a failed resolution falls through to the empty-result warning
ResolveReturnNoContinue ==
  /\ pc = "resolving"
  /\ \E run \in DigRuns :
       LET result == resolveHostname(run)
           failure == Message("WARNING", "failed to resolve hostname", lineNum, line)
           nothing == Message("WARNING", "no DNS results", lineNum, line)
       IN /\ digRuns' = Append(digRuns, [line |-> lineNum, hostname |-> line, run |-> run])
          /\ stderr' = IF result.err THEN stderr \o << failure, nothing >>
                        ELSE IF Len(result.ips) = 0 THEN Append(stderr, nothing)
                        ELSE stderr
          /\ allIPs' = allIPs \o result.ips
  /\ pc' = "scan"
  /\ UNCHANGED << Args, wgConfigFile, configLines, lineNum, line,
                  allowedIPsValue, wgLines, opened, stdout, exitCode >>

\* lines 167-176: dig returns; a failure or an empty result is a warning,
\* otherwise the kept answers are collected
ResolveReturn ==
  /\ pc = "resolving"
  /\ \E run \in DigRuns :
       LET result == resolveHostname(run)
       IN /\ digRuns' = Append(digRuns, [line |-> lineNum, hostname |-> line, run |-> run])
          /\ IF result.err
               THEN /\ warn(Message("WARNING", "failed to resolve hostname", lineNum, line))
                    /\ UNCHANGED allIPs
               ELSE IF Len(result.ips) = 0
                 THEN /\ warn(Message("WARNING", "no DNS results", lineNum, line))
                      /\ UNCHANGED allIPs
                 ELSE /\ allIPs' = allIPs \o result.ips
                      /\ UNCHANGED stderr
  /\ pc' = "scan"
  /\ UNCHANGED << Args, wgConfigFile, configLines, lineNum, line,
                  allowedIPsValue, wgLines, opened, stdout, exitCode >>

\* lines 182-190: the scanner stops, at end of input or on a read error
\* (an I/O failure or a line longer than the scanner's buffer); without an
\* error the collection is de-duplicated, sorted and joined
FinishScan ==
  /\ pc = "scan"
  /\ \E failed \in BOOLEAN :
       IF failed
         THEN /\ errorExit(Message("ERROR", "error reading config file", 0, <<>>))
              /\ UNCHANGED << allIPs, allowedIPsValue >>
         ELSE /\ allIPs' = SortStrings(removeDuplicates(allIPs))
              /\ allowedIPsValue' = Join(SortStrings(removeDuplicates(allIPs)))
              /\ pc' = "emit"
              /\ UNCHANGED << stderr, exitCode >>
  /\ UNCHANGED << Args, wgConfigFile, configLines, lineNum, line, digRuns,
                  wgLines, opened, stdout >>

\* a list emitter that prints the joined string even when it is empty
EmitListAlways ==
  /\ pc = "emit"
  /\ wgConfigFile = ""
  /\ stdout' = Append(stdout, allowedIPsValue)
  /\ pc' = "done"
  /\ exitCode' = 0
  /\ UNCHANGED << Args, wgConfigFile, configLines, lineNum, line, allIPs,
                  allowedIPsValue, digRuns, wgLines, opened, stderr >>

\* lines 193-197: without a configuration path, print the list unless it is
\* empty, and return from main
EmitList ==
  /\ pc = "emit"
  /\ wgConfigFile = ""
  /\ stdout' = IF Len(allIPs) > 0 THEN Append(stdout, allowedIPsValue) ELSE stdout
  /\ pc' = "done"
  /\ exitCode' = 0
  /\ UNCHANGED << Args, wgConfigFile, configLines, lineNum, line, allIPs,
                  allowedIPsValue, digRuns, wgLines, opened, stderr >>

\* lines 198-206: with a configuration path, open the configuration
OpenWg ==
  /\ pc = "emit"
  /\ wgConfigFile # ""
  /\ opened' = Append(opened, wgConfigFile)
  /\ \E ok \in BOOLEAN :
       IF ok
         THEN /\ pc' = "wgScan"
              /\ UNCHANGED << stderr, exitCode >>
         ELSE errorExit(Message("ERROR", "WireGuard config file does not exist", 0, <<>>))
  /\ UNCHANGED << Args, wgConfigFile, configLines, lineNum, line, allIPs,
                  allowedIPsValue, digRuns, wgLines, stdout >>

\* lines 207-215: one line of the configuration is replaced or passed on
WgScan ==
  /\ pc = "wgScan"
  /\ Len(wgLines) < MaxWgLines
  /\ \E text \in WgLines :
       /\ wgLines' = Append(wgLines, text)
       /\ stdout' = IF IsAllowedIPsLine(text)
                      THEN Append(stdout, ReplacementLine(allowedIPsValue))
                      ELSE Append(stdout, text)
  /\ UNCHANGED << Args, pc, wgConfigFile, configLines, lineNum, line, allIPs,
                  allowedIPsValue, digRuns, opened, stderr, exitCode >>

\* lines 217-221: the configuration scanner stops, at end of input or on a
\* read error, and main returns
FinishWgScan ==
  /\ pc = "wgScan"
  /\ \E failed \in BOOLEAN :
       IF failed
         THEN errorExit(Message("ERROR", "error reading WireGuard config file", 0, <<>>))
         ELSE /\ pc' = "done"
              /\ exitCode' = 0
              /\ UNCHANGED stderr
  /\ UNCHANGED << Args, wgConfigFile, configLines, lineNum, line, allIPs,
                  allowedIPsValue, digRuns, wgLines, opened, stdout >>

Next ==
  \/ CheckArgs
  \/ OpenConfig
  \/ ScanConfig
  \/ ResolveReturn
  \/ FinishScan
  \/ EmitList
  \/ OpenWg
  \/ WgScan
  \/ FinishWgScan

Spec == Init /\ [][Next]_vars

\* main runs to completion, and every dig invocation returns
FairSpec == Spec /\ WF_vars(Next)

(***************************************************************************)
(* Vocabulary of the properties.                                           *)
(***************************************************************************)
Range(seq) == { seq[i] : i \in 1..Len(seq) }

\* a literal address: exactly four dot-separated decimal segments, each
\* 0-255 without a leading zero
IsLiteralAddress(s) ==
  LET segs == Split(s, ".")
  IN /\ Len(segs) = 4
     /\ \A i \in 1..4 : DecimalField(segs[i]) # -1

\* a domain name: 1-253 characters, at least one dot, labels of 1-63
\* letters, digits and hyphens that start and end with a letter or digit
IsDomainName(s) ==
  /\ ~IsLiteralAddress(s)
  /\ Len(s) \in 1..253
  /\ Contains(s, ".")
  /\ \A i \in 1..Len(Split(s, ".")) :
       LET label == Split(s, ".")[i]
       IN /\ Len(label) \in 1..63
          /\ \A j \in 1..Len(label) : label[j] \in AlphaNum \cup {"-"}
          /\ label[1] # "-"
          /\ label[Len(label)] # "-"

\* a line of the allow-list that is neither blank, a comment, a literal
\* address nor a domain name
IsInvalidEntry(text) ==
  LET t == TrimSpace(text)
  IN /\ t # <<>>
     /\ t[1] # "#"
     /\ ~IsLiteralAddress(t)
     /\ ~IsDomainName(t)

\* a line made only of dot-separated digit segments that is no literal address
IsMalformedDottedDecimal(text) ==
  LET t == TrimSpace(text)
  IN /\ t # <<>>
     /\ \A i \in 1..Len(t) : t[i] \in Digits \cup {"."}
     /\ \A i \in 1..Len(Split(t, ".")) : Split(t, ".")[i] # <<>>
     /\ ~IsLiteralAddress(t)

\* the run has stopped
Terminated == pc \in {"done", "exited"}

\* the scan of the allow-list ended without a fatal error
Aggregated == pc \in {"emit", "wgScan", "done"} \/ (pc = "exited" /\ Len(opened) = 2)

InvalidEntryMessage(n) ==
  Message("ERROR", "invalid entry", n, TrimSpace(configLines[n]))

IsWarning(m) == m.sev = "WARNING"
IsFatal(m) == m.sev \in {"ERROR", "USAGE"}

\* the dig invocations that failed or produced no address
RunFailed(d) == resolveHostname(d.run).err \/ resolveHostname(d.run).ips = <<>>

\* the addresses handed to the collection: the literal entries read and
\* the results of the resolutions
Contributed ==
  { TrimSpace(configLines[n]) :
      n \in { k \in 1..Len(configLines) : Classify(TrimSpace(configLines[k])) = "address" } }
  \cup UNION { Range(resolveHostname(digRuns[k].run).ips) : k \in 1..Len(digRuns) }

\* the line begins, after leading white space, with the token AllowedIPs
BeginsWithAllowedIPs(text) ==
  \E k \in 1..Len(text) :
    /\ \A j \in 1..(k - 1) : text[j] \in WhiteSpace
    /\ k + 9 <= Len(text)
    /\ SubSeq(text, k, k + 9) = AllowedIPsToken

(***************************************************************************)
(* Properties.                                                             *)
(***************************************************************************)

\* C1: when the first line of the allow-list that is neither blank, a
\* comment, a literal address nor a domain name is line n, the run has
\* aborted with exit code 1 and an error naming n and the trimmed line,
\* standard output is empty, and no later line was read or resolved.
C1_InvalidEntryAborts ==
  \A n \in 1..Len(configLines) :
    ( /\ IsInvalidEntry(configLines[n])
      /\ \A m \in 1..(n - 1) : ~IsInvalidEntry(configLines[m]) )
    => /\ pc = "exited"
       /\ exitCode = 1
       /\ stderr # <<>>
       /\ stderr[Len(stderr)] = InvalidEntryMessage(n)
       /\ stdout = <<>>
       /\ Len(configLines) = n
       /\ \A k \in 1..Len(digRuns) : digRuns[k].line < n

\* C2: every run that ends in a fatal abort has a non-zero exit code and has
\* written nothing to standard output.
C2_FatalAbortNoOutput ==
  pc = "exited" => (exitCode # 0 /\ stdout = <<>>)

\* C3: a line of dot-separated digit segments that is no literal address is
\* classified Invalid: the run aborts on that line with the invalid-entry
\* error and dig is never run for it.
C3_MalformedDottedDecimalInvalid ==
  \A n \in 1..Len(configLines) :
    IsMalformedDottedDecimal(configLines[n])
    => /\ pc = "exited"
       /\ stderr # <<>>
       /\ stderr[Len(stderr)] = InvalidEntryMessage(n)
       /\ \A k \in 1..Len(digRuns) : digRuns[k].line # n

\* C4: a run that read the WireGuard configuration to its end has written
\* one line per configuration line, in order: the replacement line
\* "AllowedIPs = <joined string>" where the line begins, after leading white
\* space, with AllowedIPs, and the untrimmed line itself everywhere else.
C4_SubstitutionLineByLine ==
  (pc = "done" /\ wgConfigFile # "")
  => /\ Len(stdout) = Len(wgLines)
     /\ \A i \in 1..Len(wgLines) :
          stdout[i] = IF BeginsWithAllowedIPs(wgLines[i])
                        THEN AllowedIPsToken \o << " ", "=", " " >> \o allowedIPsValue
                        ELSE wgLines[i]

\* a finished substitution run with two different matching lines, one of
\* them indented and with a longer field name
C4_Witness ==
  /\ pc = "done"
  /\ wgConfigFile # ""
  /\ allowedIPsValue # <<>>
  /\ Len(wgLines) = 2
  /\ wgLines[1][1] = "\t"
  /\ BeginsWithAllowedIPs(wgLines[1])
  /\ BeginsWithAllowedIPs(wgLines[2])
  /\ wgLines[1] # wgLines[2]

\* C5: once the allow-list has been scanned, the collection holds exactly
\* the addresses contributed by literal entries and resolutions, each once,
\* in strictly ascending byte-wise order; the joined string is those
\* addresses separated by commas, empty when there is none; de-duplicating
\* again changes nothing.
C5_SortedDistinctJoined ==
  Aggregated
  => /\ Range(allIPs) = Contributed
     /\ \A i \in 1..(Len(allIPs) - 1) : StrLess(allIPs[i], allIPs[i + 1])
     /\ allIPs = <<>> => allowedIPsValue = <<>>
     /\ allIPs # <<>> => Split(allowedIPsValue, ",") = allIPs
     /\ removeDuplicates(allIPs) = allIPs

\* a literal entry and a resolution that contributes the same address
\* again among others, joined as 10.0.0.1,10.0.0.10,10.0.0.2
C5_Witness ==
  /\ pc = "done"
  /\ Len(configLines) = 2
  /\ Len(digRuns) = 1
  /\ Classify(TrimSpace(configLines[1])) = "address"
  /\ allowedIPsValue =
       << "1", "0", ".", "0", ".", "0", ".", "1", ",",
          "1", "0", ".", "0", ".", "0", ".", "1", "0", ",",
          "1", "0", ".", "0", ".", "0", ".", "2" >>

\* the step in which dig returns with a failure or without any address
ResolutionFails ==
  /\ pc = "resolving"
  /\ Len(digRuns') = Len(digRuns) + 1
  /\ RunFailed(digRuns'[Len(digRuns')])

C7_ListOutput ==
  (pc = "done" /\ wgConfigFile = "")
  => /\ exitCode = 0
     /\ stdout = IF Contributed = {} THEN <<>> ELSE << allowedIPsValue >>
     /\ Contributed # {} => allowedIPsValue # <<>>

\* a list-mode run over a comment and a hostname that did not resolve
C7_Witness ==
  /\ pc = "done"
  /\ wgConfigFile = ""
  /\ stdout = <<>>
  /\ exitCode = 0
  /\ Len(configLines) = 2
  /\ Len(digRuns) = 1
  /\ Len(stderr) = 1

\* C8 as stated: in the fatal-abort outcome exactly one message has been
\* written to standard error over the whole run.
C8_SingleDiagnosticOverall ==
  pc = "exited" => (exitCode # 0 /\ Len(stderr) = 1)

\* the three outcomes of a run that has stopped
ListSuccess ==
  /\ pc = "done"
  /\ exitCode = 0
  /\ wgConfigFile = ""
  /\ Len(stdout) <= 1
  /\ \A i \in 1..Len(stderr) : IsWarning(stderr[i])

SubstitutionSuccess ==
  /\ pc = "done"
  /\ exitCode = 0
  /\ wgConfigFile # ""
  /\ Len(stdout) = Len(wgLines)
  /\ \A i \in 1..Len(stderr) : IsWarning(stderr[i])

FatalAbort ==
  /\ pc = "exited"
  /\ exitCode = 1
  /\ stderr # <<>>
  /\ IsFatal(stderr[Len(stderr)])
  /\ \A i \in 1..(Len(stderr) - 1) : IsWarning(stderr[i])

\* C8, amended: every run stops, in list success, substitution success or
\* fatal abort; a fatal abort has exit code 1 and exactly one fatal message,
\* the last one written, after resolver warnings only; a run that has not
\* stopped has no exit code, and nothing happens after a run has stopped.
C8_ThreeOutcomes ==
  /\ <>Terminated
  /\ [](Terminated => (ListSuccess \/ SubstitutionSuccess \/ FatalAbort))
  /\ [](~Terminated => exitCode = -1)
  /\ [][Terminated => UNCHANGED vars]_vars

\* a fatal abort on the second line after a warning
C8_Witness ==
  /\ FatalAbort
  /\ Len(stderr) = 2
  /\ lineNum = 2
  /\ stderr[2].what = "invalid entry"

\* C9: two arguments mean substitution mode, whatever the second argument
\* is: a successful run has opened the second path and written one line per
\* line of it; one argument means list mode.
C9_ModeByArgumentCount ==
  /\ (Len(Args) = 3 /\ pc = "done")
     => /\ Len(opened) = 2
        /\ opened[2] = Args[3]
        /\ Len(stdout) = Len(wgLines)
  /\ (Len(Args) = 2 /\ pc = "done")
     => /\ opened = << Args[2] >>
        /\ Len(stdout) <= 1

\* C10: every address in the collection is a literal address.
C10_OnlyLiteralAddresses ==
  \A i \in 1..Len(allIPs) : IsLiteralAddress(allIPs[i])

====
